---- MODULE Spec2Model ----
(***************************************************************************)
(* Model of src/algorithm_random_forest.py:                                *)
(*   predict_random_forest   load-or-train, predict, display               *)
(*   generate_future_data    synthetic feature rows for a date range       *)
(*   display_table / display_graph   filter by date range and location     *)
(***************************************************************************)
EXTENDS Integers, Sequences, FiniteSets, TLC

VARIABLES
    \* generate_future_data, called on its own
    gX, gStart, gEnd, gOut, gPc,
    \* display_graph followed by display_table, as predict_random_forest calls them
    sX, sPreds, sStart, sEnd, sLoc, sPc, sPlot, sTable, sMsgs,
    \* invocations of predict_random_forest
    dataset,      \* data/weather_2021.csv: its version and its number of rows
    predictFile,  \* whether data/weather_<year>.csv exists
    store,        \* the files under saved_model/, by path
    lastWrite,    \* by path, the pipeline of the latest write to the file
    pc, field, snap, pipe, found, did, off,
    log,          \* the invocations that have ended, in the order they ended
    nStarted

gvars == <<gX, gStart, gEnd, gOut, gPc>>
svars == <<sX, sPreds, sStart, sEnd, sLoc, sPc, sPlot, sTable, sMsgs>>
pvars == <<dataset, predictFile, store, lastWrite, pc, field, snap, pipe, found, did,
           off, log, nStarted>>
vars == <<gvars, svars, pvars>>

(***************************************************************************)
(* Bounds                                                                  *)
(***************************************************************************)
MaxSpan == 8          \* dates range over BaseDate .. BaseDate + MaxSpan days
MaxRows == 3          \* rows of the historical table
MaxShowRows == 2      \* rows of the feature table handed to the display functions
MaxInvocations == 3   \* invocations of predict_random_forest in one behaviour
MaxVer == 2           \* versions of the historical dataset file
NChunks == 2          \* write calls joblib.dump needs for one artifact

(***************************************************************************)
(* Cells of a data frame                                                   *)
(***************************************************************************)
NaN == [kind |-> "nan"]
Str(s) == [kind |-> "str", s |-> s]
\* a number, kept as a reduced fraction so that a mean is exact
Frac(a, b) == [kind |-> "num", num |-> a, den |-> b]
Num(i) == Frac(i, 1)
DateCell(dt) == [kind |-> "date", y |-> dt.y, m |-> dt.m, d |-> dt.d]

IsNull(c) == c.kind = "nan"

RECURSIVE GCD(_, _)
GCD(a, b) == IF b = 0 THEN a ELSE GCD(b, a % b)

Reduce(a, b) == LET g == GCD(a, b) IN Frac(a \div g, b \div g)

(***************************************************************************)
(* Sequence helpers                                                        *)
(***************************************************************************)
RECURSIVE SeqSum(_)
SeqSum(s) == IF s = <<>> THEN 0 ELSE Head(s) + SeqSum(Tail(s))

InSeq(x, s) == \E i \in 1..Len(s) : s[i] = x

\* range(lo, hi, step)
RECURSIVE Range(_, _, _)
Range(lo, hi, step) == IF lo >= hi THEN <<>> ELSE <<lo>> \o Range(lo + step, hi, step)

\* np.repeat(s, k): every element k times, in place
RECURSIVE NpRepeat(_, _)
NpRepeat(s, k) ==
    IF s = <<>> THEN <<>>
    ELSE [i \in 1..k |-> Head(s)] \o NpRepeat(Tail(s), k)

\* np.tile(s, k): the whole sequence k times
RECURSIVE NpTile(_, _)
NpTile(s, k) == IF k <= 0 THEN <<>> ELSE s \o NpTile(s, k - 1)

\* s[:n]
Prefix(s, n) == SubSeq(s, 1, IF n < Len(s) THEN n ELSE Len(s))

(***************************************************************************)
(* Calendar: pd.date_range(start, end, freq='D') and Timestamp ordering    *)
(***************************************************************************)
IsLeap(y) == (y % 4 = 0 /\ y % 100 # 0) \/ y % 400 = 0

DaysInMonth(y, m) ==
    IF m = 2 THEN (IF IsLeap(y) THEN 29 ELSE 28)
    ELSE IF m \in {4, 6, 9, 11} THEN 30 ELSE 31

MkDate(y, m, d) == [y |-> y, m |-> m, d |-> d]

NextDay(dt) ==
    IF dt.d < DaysInMonth(dt.y, dt.m) THEN MkDate(dt.y, dt.m, dt.d + 1)
    ELSE IF dt.m < 12 THEN MkDate(dt.y, dt.m + 1, 1)
    ELSE MkDate(dt.y + 1, 1, 1)

DateLT(a, b) ==
    \/ a.y < b.y
    \/ a.y = b.y /\ a.m < b.m
    \/ a.y = b.y /\ a.m = b.m /\ a.d < b.d

DateLE(a, b) == a = b \/ DateLT(a, b)

RECURSIVE AddDays(_, _)
AddDays(dt, k) == IF k = 0 THEN dt ELSE AddDays(NextDay(dt), k - 1)

\* faulty variant of DateRange: the end date is left out
RECURSIVE DateRangeOpenEnd(_, _)
DateRangeOpenEnd(start, end) ==
    IF DateLT(start, end) THEN <<start>> \o DateRangeOpenEnd(NextDay(start), end) ELSE <<>>

RECURSIVE DateRange(_, _)
DateRange(start, end) ==
    IF DateLE(start, end) THEN <<start>> \o DateRange(NextDay(start), end) ELSE <<>>

BaseDate == MkDate(2024, 12, 27)
Dates == {AddDays(BaseDate, k) : k \in 0..MaxSpan}

(***************************************************************************)
(* Data frames: column order, column dtype, rows (column name -> cell)     *)
(***************************************************************************)
ColSet(X) == {X.cols[i] : i \in 1..Len(X.cols)}
Column(X, c) == [i \in 1..Len(X.rows) |-> X.rows[i][c]]
NonNull(s) == SelectSeq(s, LAMBDA c : ~IsNull(c))

\* Series.mean(): the mean of the non-null values, NaN when there are none
Mean(s) ==
    LET nn == NonNull(s)
    IN IF nn = <<>> THEN NaN
       ELSE Reduce(SeqSum([i \in 1..Len(nn) |-> nn[i].num]), Len(nn))

\* the order pandas sorts the string values in
StrOrder == <<"N", "S", "W">>
StrRank(c) == CHOOSE i \in 1..Len(StrOrder) : StrOrder[i] = c.s
Count(s, v) == Cardinality({i \in 1..Len(s) : s[i] = v})

\* Series.mode(): the most frequent non-null values, sorted (empty when there are none)
ModeSet(s) ==
    LET nn == NonNull(s)
        vals == {nn[i] : i \in 1..Len(nn)}
    IN {v \in vals : \A w \in vals : Count(nn, w) <= Count(nn, v)}

\* Series.mode()[0]: the first of them
ModeFirst(s) ==
    LET ms == ModeSet(s)
    IN CHOOSE v \in ms : \A w \in ms : StrRank(v) <= StrRank(w)

(***************************************************************************)
(* generate_future_data                                                    *)
(***************************************************************************)
LocationNames == <<"Batu Muda", "Petaling Jaya", "Cheras">>
location_mapping == [k \in 1..Len(LocationNames) |-> LocationNames[k]]
location_nums == [k \in 1..Len(LocationNames) |-> k]

HourStop == 2400
HourStep == 100
HoursPerCycle == 24
\* faulty variant of HourValues: the cycle starts at 100
HourValuesFromStep == Range(HourStep, HourStop + HourStep, HourStep)
HourValues == Range(0, HourStop, HourStep)

GeneratedCols == <<"Year", "Month", "Day", "LocationInNum", "Hour">>

\* lines 106-121: the frame of calendar, location and hour columns
FutureFrame(start_date, end_date) ==
    LET future_dates == DateRange(start_date, end_date)
        nloc == Len(location_nums)
        year == NpRepeat([i \in 1..Len(future_dates) |-> future_dates[i].y], nloc)
        month == NpRepeat([i \in 1..Len(future_dates) |-> future_dates[i].m], nloc)
        day == NpRepeat([i \in 1..Len(future_dates) |-> future_dates[i].d], nloc)
        loc == NpTile(location_nums, Len(future_dates))
        len == Len(year)
        hour == Prefix(NpTile(HourValues, len \div HoursPerCycle + 1), len)
    IN [i \in 1..len |->
          [c \in {GeneratedCols[k] : k \in 1..Len(GeneratedCols)} |->
              CASE c = "Year" -> Num(year[i])
                [] c = "Month" -> Num(month[i])
                [] c = "Day" -> Num(day[i])
                [] c = "LocationInNum" -> Num(loc[i])
                [] c = "Hour" -> Num(hour[i])]]

\* lines 126-129: the value a column missing from the frame is filled with
FillValue(X, col) ==
    IF X.dtype[col] = "object" THEN ModeFirst(Column(X, col)) ELSE Mean(Column(X, col))

\* line 127 raises (KeyError: 0) when mode() is empty
FillRaises(X, col) ==
    X.dtype[col] = "object" /\ ModeSet(Column(X, col)) = {}

\* line 135: pd.to_datetime over the Year, Month, Day columns
ToDatetime(row) == DateCell(MkDate(row["Year"].num, row["Month"].num, row["Day"].num))

Raised(e) == [status |-> e, cols |-> <<>>, rows |-> <<>>]

generate_future_data(X, start_date, end_date) ==
    LET frame == FutureFrame(start_date, end_date)
        have == {GeneratedCols[k] : k \in 1..Len(GeneratedCols)}
        missing == ColSet(X) \ have
    IN IF \E col \in missing : FillRaises(X, col) THEN Raised("KeyError")
       ELSE IF ~({"Year", "Month", "Day"} \subseteq ColSet(X)) THEN Raised("KeyError")
       ELSE
         LET fill == [col \in missing |-> FillValue(X, col)]
             \* line 132: restricted to, and ordered as, X.columns
             ordered == [i \in 1..Len(frame) |->
                           [c \in ColSet(X) |->
                               IF c \in have THEN frame[i][c] ELSE fill[c]]]
             outcols == IF InSeq("DateTime", X.cols) THEN X.cols
                        ELSE X.cols \o <<"DateTime">>
         IN [status |-> "ok",
             cols |-> outcols,
             rows |-> [i \in 1..Len(ordered) |->
                         [c \in ColSet(X) \cup {"DateTime"} |->
                             IF c = "DateTime" THEN ToDatetime(ordered[i])
                             ELSE ordered[i][c]]]]

(***************************************************************************)
(* The historical tables generate_future_data is applied to: X after the   *)
(* target column was dropped (line 31)                                     *)
(***************************************************************************)
SchemaNumeric == <<"Year", "Month", "Day", "Hour", "LocationInNum", "Humidity">>
SchemaMixed == <<"Wind", "LocationInNum", "Hour", "Humidity", "Day", "Month", "Year">>
\* the target was "Year": X has no Year column
SchemaNoYear == <<"Month", "Day", "Hour", "LocationInNum", "Humidity">>
Schemas == {SchemaNumeric, SchemaMixed, SchemaNoYear}

DtypeOf(c) == IF c = "Wind" THEN "object"
              ELSE IF c = "Humidity" THEN "float64" ELSE "int64"

HumidityValues == {NaN, Num(60), Num(81)}
WindValues == {NaN, Str("N"), Str("S")}

HistRow(cols, v) ==
    [c \in {cols[k] : k \in 1..Len(cols)} |->
        CASE c = "Year" -> Num(2021)
          [] c = "Month" -> Num(1)
          [] c = "Day" -> Num(1)
          [] c = "Hour" -> Num(0)
          [] c = "LocationInNum" -> Num(1)
          [] c = "Humidity" -> IF InSeq("Wind", cols) THEN Num(60) ELSE v
          [] c = "Wind" -> v]

VaryValues(cols) == IF InSeq("Wind", cols) THEN WindValues ELSE HumidityValues

HistTables ==
    UNION {
      UNION {
        { [cols |-> cols,
           dtype |-> [c \in {cols[k] : k \in 1..Len(cols)} |-> DtypeOf(c)],
           rows |-> [i \in 1..n |-> HistRow(cols, vs[i])]]
          : vs \in [1..n -> VaryValues(cols)] }
        : n \in 0..MaxRows }
      : cols \in Schemas }

InitPredictIdle ==
    /\ dataset = [ver |-> 1, rows |-> 0]
    /\ predictFile = FALSE
    /\ store = <<>>
    /\ lastWrite = <<>>
    /\ pc = <<>>
    /\ field = <<>>
    /\ snap = <<>>
    /\ pipe = <<>>
    /\ found = <<>>
    /\ did = <<>>
    /\ off = <<>>
    /\ log = <<>>
    /\ nStarted = 0

NoResult == [status |-> "none", cols |-> <<>>, rows |-> <<>>]

Generate ==
    /\ gPc = "ready"
    /\ gOut' = generate_future_data(gX, gStart, gEnd)
    /\ gPc' = "done"
    /\ UNCHANGED <<gX, gStart, gEnd, svars, pvars>>

InitShowIdle ==
    /\ sX = [cols |-> <<>>, rows |-> <<>>]
    /\ sPreds = <<>>
    /\ sStart = BaseDate
    /\ sEnd = BaseDate
    /\ sLoc = "Batu Muda"
    /\ sPc = "off"
    /\ sPlot = <<>>
    /\ sTable = <<>>
    /\ sMsgs = <<>>

InitGen ==
    /\ gX \in HistTables
    /\ gStart \in Dates
    /\ gEnd \in Dates
    /\ gOut = NoResult
    /\ gPc = "ready"
    /\ InitShowIdle
    /\ InitPredictIdle

NextGen == Generate

SpecGen == InitGen /\ [][NextGen]_vars

(***************************************************************************)
(* Claims about generate_future_data (SpecGen)                             *)
(***************************************************************************)
\* days from BaseDate to dt
Ordinal(dt) == CHOOSE k \in 0..(MaxSpan + 1) : AddDays(BaseDate, k) = dt
InclusiveDays(a, b) == IF DateLE(a, b) THEN Ordinal(b) - Ordinal(a) + 1 ELSE 0

\* the historical table lets every fill be computed and the date be assembled
Fillable(X) ==
    /\ {"Year", "Month", "Day"} \subseteq ColSet(X)
    /\ \A c \in ColSet(X) :
          (X.dtype[c] = "object" /\ ~InSeq(c, GeneratedCols))
             => \E i \in 1..Len(X.rows) : ~IsNull(X.rows[i][c])

\* C1: for startDate <= endDate generate_future_data returns exactly
\* (inclusive day count) x 3 rows, one per (day, location code in {1,2,3}) pair,
\* day by day with the three locations of a day in a row; for startDate > endDate
\* it returns no row. It returns whenever the fills can be computed.
C1_RowPerDayAndLocation ==
    gPc = "done" =>
        LET n == InclusiveDays(gStart, gEnd)
        IN /\ Fillable(gX) => gOut.status = "ok"
           /\ gOut.status = "ok" =>
                /\ Len(gOut.rows) = 3 * n
                /\ DateLT(gEnd, gStart) => gOut.rows = <<>>
                /\ \A k \in 0..(n - 1) : \A l \in {1, 2, 3} :
                      LET r == gOut.rows[3 * k + l]
                      IN /\ r["DateTime"] = DateCell(AddDays(gStart, k))
                         /\ r["Day"] = Num(AddDays(gStart, k).d)
                         /\ r["Month"] = Num(AddDays(gStart, k).m)
                         /\ r["Year"] = Num(AddDays(gStart, k).y)
                         /\ r["LocationInNum"] = Num(l)

\* C1 witness: a two-day range has produced six rows
C1_Witness ==
    /\ gPc = "done"
    /\ gOut.status = "ok"
    /\ InclusiveDays(gStart, gEnd) = 2
    /\ Len(gOut.rows) = 6

\* C7: the Hour of the row at 0-based position i is 100 x (i mod 24)
C7_HourCycles ==
    (gPc = "done" /\ gOut.status = "ok" /\ InSeq("Hour", gOut.cols)) =>
        \A i \in 1..Len(gOut.rows) :
            gOut.rows[i]["Hour"] = Num(100 * ((i - 1) % 24))

\* C7 witness: more than 24 rows were produced and the 25th starts the cycle again,
\* on another day and location than the first
C7_Witness ==
    /\ gPc = "done"
    /\ gOut.status = "ok"
    /\ Len(gOut.rows) > 24
    /\ gOut.rows[25]["Hour"] = Num(0)
    /\ gOut.rows[24]["Hour"] = Num(2300)
    /\ gOut.rows[25]["DateTime"] # gOut.rows[1]["DateTime"]

\* C8: every produced row has every column of the historical schema, in the
\* historical order, non-null: calendar and location columns from the (date,
\* location) pair, any other column the mode (string-typed) or the mean
C8_ColumnsPresentNonNull ==
    (gPc = "done" /\ gOut.status = "ok") =>
        /\ SubSeq(gOut.cols, 1, Len(gX.cols)) = gX.cols
        /\ \A i \in 1..Len(gOut.rows) : \A c \in ColSet(gX) :
              /\ c \in DOMAIN gOut.rows[i]
              /\ ~IsNull(gOut.rows[i][c])

\* C9: with a historical table of zero rows the synthesizer signals an error
\* instead of producing rows
C9_EmptyReferenceSignalsError ==
    (gPc = "done" /\ Len(gX.rows) = 0) => gOut.status # "ok"

(***************************************************************************)
(* display_graph and display_table                                         *)
(***************************************************************************)
CellDate(c) == MkDate(c.y, c.m, c.d)

\* Series.map(dict): a code that is no key of the dict maps to NaN
MapLocation(code) ==
    IF code.kind = "num" /\ code.den = 1 /\ code.num \in DOMAIN location_mapping
    THEN Str(location_mapping[code.num])
    ELSE NaN

\* X_predict['Location'] = X_predict['LocationInNum'].map(...): assigns a column
\* of the caller's frame, appended when the frame has none of that name
AssignLocation(X) ==
    [cols |-> IF InSeq("Location", X.cols) THEN X.cols ELSE Append(X.cols, "Location"),
     rows |-> [i \in 1..Len(X.rows) |->
                 [c \in (DOMAIN X.rows[i]) \cup {"Location"} |->
                     IF c = "Location" THEN MapLocation(X.rows[i]["LocationInNum"])
                     ELSE X.rows[i][c]]]]

\* s[mask] for a boolean mask: the elements at the positions where it is true
BoolIndex(s, mask) ==
    LET idx == SelectSeq([i \in 1..Len(s) |-> i], LAMBDA i : mask[i])
    IN [k \in 1..Len(idx) |-> s[idx[k]]]

MsgNoPlot == "No data available for plotting"
MsgNoTable == "No predictions found for the selected location and date range"

\* faulty variant of display_graph: the mask leaves the location out
display_graph_AnyLocation(X_predict, preds, start_date, end_date, location_select) ==
    LET X1 == AssignLocation(X_predict)
        mask == [i \in 1..Len(X1.rows) |->
                   /\ DateLE(start_date, CellDate(X1.rows[i]["DateTime"]))
                   /\ DateLE(CellDate(X1.rows[i]["DateTime"]), end_date)]
        filtered_data == BoolIndex(X1.rows, mask)
        shown == BoolIndex(preds, mask)
    IN IF filtered_data = <<>>
       THEN [X |-> X1, plot |-> <<>>, msgs |-> <<MsgNoPlot>>]
       ELSE [X |-> X1,
             plot |-> [k \in 1..Len(filtered_data) |->
                         [DateTime |-> filtered_data[k]["DateTime"], y |-> shown[k]]],
             msgs |-> <<>>]

display_graph(X_predict, preds, start_date, end_date, location_select) ==
    LET X1 == AssignLocation(X_predict)
        mask == [i \in 1..Len(X1.rows) |->
                   /\ DateLE(start_date, CellDate(X1.rows[i]["DateTime"]))
                   /\ DateLE(CellDate(X1.rows[i]["DateTime"]), end_date)
                   /\ X1.rows[i]["Location"] = Str(location_select)]
        filtered_data == BoolIndex(X1.rows, mask)
        shown == BoolIndex(preds, mask)
    IN IF filtered_data = <<>>
       THEN [X |-> X1, plot |-> <<>>, msgs |-> <<MsgNoPlot>>]
       ELSE [X |-> X1,
             plot |-> [k \in 1..Len(filtered_data) |->
                         [DateTime |-> filtered_data[k]["DateTime"], y |-> shown[k]]],
             msgs |-> <<>>]

\* faulty variant of display_table: the end date is excluded
display_table_OpenEnd(X_predict, preds, start_date, end_date, location_select) ==
    LET X1 == AssignLocation(X_predict)
        results_df == [i \in 1..Len(X1.rows) |->
                         [index |-> i,
                          DateTime |-> X1.rows[i]["DateTime"],
                          Location |-> X1.rows[i]["Location"],
                          PredictedValue |-> preds[i]]]
        kept == SelectSeq(results_df, LAMBDA r :
                   /\ DateLE(start_date, CellDate(r.DateTime))
                   /\ DateLT(CellDate(r.DateTime), end_date)
                   /\ r.Location = Str(location_select))
    IN IF kept = <<>>
       THEN [X |-> X1, table |-> <<>>, msgs |-> <<MsgNoTable>>]
       ELSE [X |-> X1, table |-> kept, msgs |-> <<>>]

display_table(X_predict, preds, start_date, end_date, location_select) ==
    LET X1 == AssignLocation(X_predict)
        results_df == [i \in 1..Len(X1.rows) |->
                         [index |-> i,
                          DateTime |-> X1.rows[i]["DateTime"],
                          Location |-> X1.rows[i]["Location"],
                          PredictedValue |-> preds[i]]]
        kept == SelectSeq(results_df, LAMBDA r :
                   /\ DateLE(start_date, CellDate(r.DateTime))
                   /\ DateLE(CellDate(r.DateTime), end_date)
                   /\ r.Location = Str(location_select))
    IN IF kept = <<>>
       THEN [X |-> X1, table |-> <<>>, msgs |-> <<MsgNoTable>>]
       ELSE [X |-> X1, table |-> kept, msgs |-> <<>>]

\* lines 96-97: predict_random_forest shows the graph, then the table, of the
\* same frame and predictions
DisplayGraph ==
    /\ sPc = "ready"
    /\ LET r == display_graph(sX, sPreds, sStart, sEnd, sLoc)
       IN /\ sX' = r.X
          /\ sPlot' = r.plot
          /\ sMsgs' = sMsgs \o r.msgs
    /\ sPc' = "graphed"
    /\ UNCHANGED <<sPreds, sStart, sEnd, sLoc, sTable, gvars, pvars>>

DisplayTable ==
    /\ sPc = "graphed"
    /\ LET r == display_table(sX, sPreds, sStart, sEnd, sLoc)
       IN /\ sX' = r.X
          /\ sTable' = r.table
          /\ sMsgs' = sMsgs \o r.msgs
    /\ sPc' = "tabled"
    /\ UNCHANGED <<sPreds, sStart, sEnd, sLoc, sPlot, gvars, pvars>>

\* the feature tables and selections the display functions are applied to
ShowDates == {AddDays(BaseDate, k) : k \in 4..6}
ShowCodes == 1..(Len(LocationNames) + 1)
ShowLocations == {LocationNames[k] : k \in 1..Len(LocationNames)} \cup {"Mars"}
ShowCols == <<"LocationInNum", "DateTime">>

ShowTables ==
    UNION {
      { [cols |-> ShowCols,
         rows |-> [i \in 1..n |->
                     [c \in {"LocationInNum", "DateTime"} |->
                         IF c = "DateTime" THEN DateCell(ds[i]) ELSE Num(ls[i])]]]
        : ds \in [1..n -> ShowDates], ls \in [1..n -> ShowCodes] }
      : n \in 0..MaxShowRows }

\* the prediction of the row at position i: one value per row, all distinct
PredAt(i) == Frac(10 * i + 5, 10)

InitGenIdle ==
    /\ gX = [cols |-> <<>>, dtype |-> <<>>, rows |-> <<>>]
    /\ gStart = BaseDate
    /\ gEnd = BaseDate
    /\ gOut = NoResult
    /\ gPc = "off"

InitShow ==
    /\ sX \in ShowTables
    /\ sPreds = [i \in 1..Len(sX.rows) |-> PredAt(i)]
    /\ sStart \in ShowDates
    /\ sEnd \in ShowDates
    /\ sLoc \in ShowLocations
    /\ sPc = "ready"
    /\ sPlot = <<>>
    /\ sTable = <<>>
    /\ sMsgs = <<>>
    /\ InitGenIdle
    /\ InitPredictIdle

NextShow == DisplayGraph \/ DisplayTable

SpecShow == InitShow /\ [][NextShow]_vars

(***************************************************************************)
(* Claims about the display functions (SpecShow)                           *)
(***************************************************************************)
\* the positions of the rows a date range and a location name select
Selected(X, start, end, loc) ==
    {i \in 1..Len(X.rows) :
        /\ DateLE(start, CellDate(X.rows[i]["DateTime"]))
        /\ DateLE(CellDate(X.rows[i]["DateTime"]), end)
        /\ \E k \in 1..3 :
              /\ X.rows[i]["LocationInNum"] = Num(k)
              /\ loc = <<"Batu Muda", "Petaling Jaya", "Cheras">>[k]}

\* C2: display_table and display_graph select the same rows, exactly those whose
\* DateTime lies in [startDate, endDate] and whose location code maps to the
\* selected name, each paired with the prediction of that row
C2_SameFilter ==
    sPc = "tabled" =>
        LET sel == Selected(sX, sStart, sEnd, sLoc)
        IN /\ Len(sTable) = Cardinality(sel)
           /\ Len(sPlot) = Cardinality(sel)
           /\ \A k \in 1..Len(sTable) :
                 /\ sTable[k].index \in sel
                 /\ \A j \in 1..Len(sTable) : j < k => sTable[j].index < sTable[k].index
                 /\ sTable[k].DateTime = sX.rows[sTable[k].index]["DateTime"]
                 /\ sTable[k].Location = Str(sLoc)
                 /\ sTable[k].PredictedValue = sPreds[sTable[k].index]
                 /\ sPlot[k].DateTime = sTable[k].DateTime
                 /\ sPlot[k].y = sTable[k].PredictedValue

\* C2 witness: both were shown, one row of two was selected and the other was not
C2_Witness ==
    /\ sPc = "tabled"
    /\ Len(sX.rows) = 2
    /\ Len(sTable) = 1
    /\ Len(sPlot) = 1
    /\ sTable[1].index = 2

\* C5: with a location that is none of the three names both functions show
\* nothing and report the no-data condition
C5_UnknownLocationEmpty ==
    (sLoc \notin {"Batu Muda", "Petaling Jaya", "Cheras"}) =>
        /\ sPc \in {"graphed", "tabled"} =>
              (sPlot = <<>> /\ InSeq(MsgNoPlot, sMsgs))
        /\ sPc = "tabled" =>
              (sTable = <<>> /\ sMsgs = <<MsgNoPlot, MsgNoTable>>)

\* C5 witness: both functions ran for "Mars" over rows inside the date range
C5_Witness ==
    /\ sLoc = "Mars"
    /\ sPc = "tabled"
    /\ \E i \in 1..Len(sX.rows) :
          /\ DateLE(sStart, CellDate(sX.rows[i]["DateTime"]))
          /\ DateLE(CellDate(sX.rows[i]["DateTime"]), sEnd)

\* C6: neither function changes the caller's featureTable or predictions
C6_InputsUnchanged ==
    [][(sX' = sX /\ sPreds' = sPreds)]_svars

(***************************************************************************)
(* predict_random_forest: concurrent invocations over the files they share *)
(***************************************************************************)
Procs == {"s1", "s2"}

\* the columns of data/weather_2021.csv
HistColumns == {"Year", "Month", "Day", "Hour", "LocationInNum", "Humidity", "Temperature"}
\* the target fields a user asks for; "Pressure" is no column of the dataset
Fields == {"Temperature", "Humidity", "Pressure"}
\* the numbers of rows the dataset file may hold
RowChoices == {0, 5}

\* line 47
ModelPath(f) == <<"saved_model/RF_", f, ".joblib">>
Paths == {ModelPath(f) : f \in Fields}

Unfitted == [kind |-> "unfitted"]
Chimera == [kind |-> "chimera"]
Hole == [kind |-> "hole"]
\* line 71: fit is deterministic (random_state=0) in the field and the training data
Fitted(f, ver) == [kind |-> "pipeline", field |-> f, ver |-> ver]

Absent == [exists |-> FALSE, chunks |-> [k \in 1..NChunks |-> Hole]]
\* open(path, 'wb'): the file exists and is empty
Truncated == [exists |-> TRUE, chunks |-> [k \in 1..NChunks |-> Hole]]
Whole(pl) == [exists |-> TRUE, chunks |-> [k \in 1..NChunks |-> pl]]

Complete(file) ==
    /\ file.exists
    /\ file.chunks[1].kind = "pipeline"
    /\ \A k \in 1..NChunks : file.chunks[k] = file.chunks[1]
Content(file) == file.chunks[1]

\* line 34: train_test_split(train_size=0.8, test_size=0.2) raises ValueError when
\* the train set would be empty
SplitRaises(n) == n = 0 \/ (8 * n) \div 10 = 0

\* what is kept of an invocation that has ended; ver is the dataset version it
\* worked with once it got to the load-or-train branch (0 before that)
Entry(f, outcome, fnd, events, pl, ver) ==
    [field |-> f, outcome |-> outcome, found |-> fnd, did |-> events,
     pipe |-> pl, ver |-> ver]

Reset(p) ==
    /\ pc' = [pc EXCEPT ![p] = "idle"]
    /\ field' = [field EXCEPT ![p] = "-"]
    /\ snap' = [snap EXCEPT ![p] = 0]
    /\ pipe' = [pipe EXCEPT ![p] = Unfitted]
    /\ found' = [found EXCEPT ![p] = "unknown"]
    /\ did' = [did EXCEPT ![p] = {}]
    /\ off' = [off EXCEPT ![p] = 0]

\* faulty variant of Begin: the field is not checked against the columns
Begin_NoFieldCheck(p, f) ==
    /\ pc[p] = "idle"
    /\ nStarted < MaxInvocations
    /\ nStarted' = nStarted + 1
    /\ IF SplitRaises(dataset.rows)
       THEN /\ log' = Append(log, Entry(f, "ValueError", "unknown", {}, Unfitted, 0))
            /\ UNCHANGED <<pc, field, snap, pipe, found, did, off>>
       ELSE /\ pc' = [pc EXCEPT ![p] = "exists"]
            /\ field' = [field EXCEPT ![p] = f]
            /\ snap' = [snap EXCEPT ![p] = dataset.ver]
            /\ UNCHANGED <<pipe, found, did, off, log>>
    /\ UNCHANGED <<dataset, predictFile, store, lastWrite, gvars, svars>>

\* lines 17-63: read the dataset, check the field, drop, split, build the pipeline
Begin(p, f) ==
    /\ pc[p] = "idle"
    /\ nStarted < MaxInvocations
    /\ nStarted' = nStarted + 1
    /\ IF f \notin HistColumns
       THEN \* lines 24-26: st.error and return
            /\ log' = Append(log, Entry(f, "schema_error", "unknown", {"st.error"},
                                        Unfitted, 0))
            /\ UNCHANGED <<pc, field, snap, pipe, found, did, off>>
       ELSE IF SplitRaises(dataset.rows)
       THEN \* line 34 raises; nothing in the function catches it
            /\ log' = Append(log, Entry(f, "ValueError", "unknown", {}, Unfitted, 0))
            /\ UNCHANGED <<pc, field, snap, pipe, found, did, off>>
       ELSE /\ pc' = [pc EXCEPT ![p] = "exists"]
            /\ field' = [field EXCEPT ![p] = f]
            /\ snap' = [snap EXCEPT ![p] = dataset.ver]
            /\ UNCHANGED <<pipe, found, did, off, log>>
    /\ UNCHANGED <<dataset, predictFile, store, lastWrite, gvars, svars>>

\* line 66: os.path.exists(model_save_path)
ModelExists(p) ==
    /\ pc[p] = "exists"
    /\ LET there == store[ModelPath(field[p])].exists
       IN /\ found' = [found EXCEPT ![p] = IF there THEN "yes" ELSE "no"]
          /\ pc' = [pc EXCEPT ![p] = IF there THEN "load" ELSE "fit"]
    /\ did' = [did EXCEPT ![p] = @ \cup {"exists"}]
    /\ UNCHANGED <<dataset, predictFile, store, lastWrite, field, snap, pipe, off, log,
                   nStarted, gvars, svars>>

\* what joblib.load can return for the bytes it finds: the pipeline of a whole
\* file; nothing (it raises) for a file with bytes missing; and for a file put
\* together from the writes of two different pipelines either nothing or an object
\* that is neither pipeline
Loadable(file) ==
    IF Complete(file) THEN {Content(file)}
    ELSE IF \E k \in 1..NChunks : file.chunks[k] = Hole THEN {}
    ELSE {Chimera}

LoadMayRaise(file) == ~Complete(file)

\* faulty variant of Load: the cached artifact is ignored and the pipeline is fitted again
Load_Retrain(p) ==
    /\ pc[p] = "load"
    /\ pipe' = [pipe EXCEPT ![p] = Fitted(field[p], snap[p])]
    /\ did' = [did EXCEPT ![p] = @ \cup {"load"}]
    /\ pc' = [pc EXCEPT ![p] = "future"]
    /\ UNCHANGED <<field, snap, found, off, log>>
    /\ UNCHANGED <<dataset, predictFile, store, lastWrite, nStarted, gvars, svars>>

\* lines 67-68: joblib.load(model_save_path)
Load(p) ==
    /\ pc[p] = "load"
    /\ LET file == store[ModelPath(field[p])]
       IN \/ \E pl \in Loadable(file) :
                /\ pipe' = [pipe EXCEPT ![p] = pl]
                /\ did' = [did EXCEPT ![p] = @ \cup {"load"}]
                /\ pc' = [pc EXCEPT ![p] = "future"]
                /\ UNCHANGED <<field, snap, found, off, log>>
          \/ /\ LoadMayRaise(file)
             /\ log' = Append(log, Entry(field[p], "LoadError", found[p],
                                         did[p] \cup {"load"}, Unfitted, snap[p]))
             /\ Reset(p)
    /\ UNCHANGED <<dataset, predictFile, store, lastWrite, nStarted, gvars, svars>>

\* lines 70-72: pipeline.fit, then joblib.dump opens the file for writing
Train(p) ==
    /\ pc[p] = "fit"
    /\ pipe' = [pipe EXCEPT ![p] = Fitted(field[p], snap[p])]
    /\ did' = [did EXCEPT ![p] = @ \cup {"fit"}]
    /\ store' = [store EXCEPT ![ModelPath(field[p])] = Truncated]
    /\ off' = [off EXCEPT ![p] = 1]
    /\ pc' = [pc EXCEPT ![p] = "dump"]
    /\ UNCHANGED <<dataset, predictFile, lastWrite, field, snap, found, log, nStarted,
                   gvars, svars>>

\* line 72: joblib.dump writes the next part of the pickle at its own offset
DumpWrite(p) ==
    /\ pc[p] = "dump"
    /\ store' = [store EXCEPT ![ModelPath(field[p])] =
                    [exists |-> TRUE, chunks |-> [@.chunks EXCEPT ![off[p]] = pipe[p]]]]
    /\ lastWrite' = [lastWrite EXCEPT ![ModelPath(field[p])] = pipe[p]]
    /\ IF off[p] = NChunks
       THEN /\ pc' = [pc EXCEPT ![p] = "future"]
            /\ did' = [did EXCEPT ![p] = @ \cup {"dump"}]
            /\ off' = [off EXCEPT ![p] = 0]
       ELSE /\ off' = [off EXCEPT ![p] = @ + 1]
            /\ UNCHANGED <<pc, did>>
    /\ UNCHANGED <<dataset, predictFile, field, snap, pipe, found, log, nStarted,
                   gvars, svars>>

\* lines 75-97: read or generate the future data, predict, show graph and table
Present(p) ==
    /\ pc[p] = "future"
    /\ LET source == IF predictFile THEN "read_csv" ELSE "generate_future_data"
           events == did[p] \cup {source, "predict", "display_graph", "display_table"}
       IN log' = Append(log, Entry(field[p], "shown", found[p], events, pipe[p], snap[p]))
    /\ Reset(p)
    /\ UNCHANGED <<dataset, predictFile, store, lastWrite, nStarted, gvars, svars>>

\* the dataset file is replaced between or during invocations
UpdateDataset ==
    /\ dataset.ver < MaxVer
    /\ \E n \in RowChoices : dataset' = [ver |-> dataset.ver + 1, rows |-> n]
    /\ UNCHANGED <<predictFile, store, lastWrite, pc, field, snap, pipe, found, did, off,
                   log, nStarted, gvars, svars>>

\* saved_model/ at the start: an artifact is there (fitted on an older dataset) or not
InitPredict ==
    /\ dataset \in [ver : {1}, rows : RowChoices]
    /\ predictFile \in BOOLEAN
    /\ store \in [Paths -> {Absent}] \cup
                 {[q \in Paths |-> IF q = ModelPath(f) THEN Whole(Fitted(f, 0)) ELSE Absent]
                    : f \in Fields}
    /\ lastWrite = [q \in Paths |-> IF store[q].exists THEN Content(store[q]) ELSE Unfitted]
    /\ pc = [p \in Procs |-> "idle"]
    /\ field = [p \in Procs |-> "-"]
    /\ snap = [p \in Procs |-> 0]
    /\ pipe = [p \in Procs |-> Unfitted]
    /\ found = [p \in Procs |-> "unknown"]
    /\ did = [p \in Procs |-> {}]
    /\ off = [p \in Procs |-> 0]
    /\ log = <<>>
    /\ nStarted = 0
    /\ InitGenIdle
    /\ InitShowIdle

Step(p) ==
    \/ \E f \in Fields : Begin(p, f)
    \/ ModelExists(p)
    \/ Load(p)
    \/ Train(p)
    \/ DumpWrite(p)
    \/ Present(p)

Next == UpdateDataset \/ \E p \in Procs : Step(p)

\* invocations that may interleave in any way
Spec == InitPredict /\ [][Next]_vars

\* one invocation at a time: a session starts one only when no other is running
NextSeq ==
    \/ UpdateDataset
    \/ \E p \in Procs : (\A q \in Procs \ {p} : pc[q] = "idle") /\ Step(p)

SpecSeq == InitPredict /\ [][NextSeq]_vars

(***************************************************************************)
(* Claims about predict_random_forest                                      *)
(***************************************************************************)
\* the invocation reached the load-or-train branch (line 66)
ReachedBranch(e) == "exists" \in e.did

\* C3 (SpecSeq, one invocation after another): the pipeline is fitted only by an
\* invocation that found no artifact at the field's path; a fitted pipeline is
\* in the file, whole, before the invocation goes on; and an invocation that
\* follows one for the same field finds the artifact, does not fit, and works
\* with the very pipeline the earlier one worked with
C3_FitOnlyOnMissThenCached ==
    /\ \A p \in Procs : "fit" \in did[p] => found[p] = "no"
    /\ \A p \in Procs :
          (pc[p] = "future" /\ "fit" \in did[p]) =>
              /\ "dump" \in did[p]
              /\ store[ModelPath(field[p])] = Whole(pipe[p])
    /\ \A i \in 1..Len(log) :
          /\ "fit" \in log[i].did => (log[i].found = "no" /\ "dump" \in log[i].did)
          /\ ReachedBranch(log[i]) => log[i].outcome = "shown"
          /\ \A j \in 1..Len(log) :
                (i < j /\ log[i].field = log[j].field
                       /\ ReachedBranch(log[i]) /\ ReachedBranch(log[j])) =>
                    /\ log[j].found = "yes"
                    /\ "fit" \notin log[j].did
                    /\ "load" \in log[j].did
                    /\ log[j].pipe = log[i].pipe
                    /\ store[ModelPath(log[j].field)] = Whole(log[j].pipe)

\* C3 witness: an invocation fitted and persisted, the dataset changed, and a
\* later invocation for the same field loaded the artifact
C3_Witness ==
    \E i, j \in 1..Len(log) :
        /\ i < j
        /\ log[i].field = log[j].field
        /\ "fit" \in log[i].did
        /\ log[j].found = "yes"
        /\ log[j].outcome = "shown"
        /\ log[j].ver # log[i].ver

\* C4: an invocation for a field that is no column of the dataset reports the
\* schema error and ends: it fits nothing, reads and writes no artifact, synthesizes
\* and predicts nothing, shows no table or chart, and leaves every artifact as it
\* was, the one named after that field included
C4_MissingFieldEndsInvocation ==
    /\ [](/\ \A p \in Procs : pc[p] # "idle" => field[p] \in HistColumns
          /\ \A i \in 1..Len(log) :
                log[i].field \notin HistColumns =>
                    /\ log[i].outcome = "schema_error"
                    /\ log[i].did = {"st.error"}
                    /\ log[i].pipe = Unfitted)
    /\ [][/\ \A f \in Fields \ HistColumns :
                store'[ModelPath(f)] = store[ModelPath(f)]
          /\ (Len(log') > Len(log) /\ log'[Len(log')].field \notin HistColumns) =>
                (store' = store /\ lastWrite' = lastWrite /\ pc' = pc /\ pipe' = pipe)]_vars

\* C4 witness: an invocation for "Pressure" has ended while an artifact named
\* after "Pressure" is in the store
C4_Witness ==
    /\ store[ModelPath("Pressure")].exists
    /\ \E i \in 1..Len(log) : log[i].field = "Pressure"

\* C10: two invocations for a field with no artifact yet: however they
\* interleave, once both have ended the artifact is there, whole, and is the
\* pipeline of the last writer, and each of them has predicted with a whole
\* fitted pipeline
C10_RaceLeavesWholeArtifact ==
    \A f \in Fields \cap HistColumns :
        LET mine == {i \in 1..Len(log) : log[i].field = f /\ ReachedBranch(log[i])}
        IN (/\ store[ModelPath(f)] # Whole(Fitted(f, 0))
            /\ Cardinality(mine) >= 2
            /\ \A p \in Procs : field[p] # f) =>
               /\ Complete(store[ModelPath(f)])
               /\ Content(store[ModelPath(f)]) = lastWrite[ModelPath(f)]
               /\ \A i \in mine :
                     /\ log[i].outcome = "shown"
                     /\ log[i].pipe.kind = "pipeline"

====
